---- MODULE Spec2Model ----
(***************************************************************************)
(* Model of the reduced Collatz solver (src/main.py): the exit maps, the   *)
(* bounded macro scans, the digit router and the 4-component hub.          *)
(*                                                                         *)
(* A Python call either returns a value or raises.  Its outcome is a       *)
(* record [exc, none, val]: exc = "" and val the returned integer, or      *)
(* exc = "" and none = TRUE for a returned None, or exc the name of the    *)
(* exception raised.                                                       *)
(***************************************************************************)
EXTENDS Integers, Sequences, FiniteSets, TLC

VARIABLES op, n0, n, pc, ret, iters

vars == <<op, n0, n, pc, ret, iters>>

\* ------------------------------------------------------------------
\* Bounds of the model
\* ------------------------------------------------------------------
MaxNeg == 25           \* arguments from -MaxNeg upward are tried
MaxFnArg == 10000      \* greatest argument of a direct exit-map call
MaxHubArg == 50000     \* greatest input of solve_C4_hub
MaxSteps == 400        \* primitive steps followed when comparing with T
MaxIters == 64         \* loop iterations of a solver a run may take

\* range(1, 10_001) of the solver smoke test
SolverRangeEnd == 10001

\* ------------------------------------------------------------------
\* Outcomes of a call
\* ------------------------------------------------------------------
Ret(v) == [exc |-> "", none |-> FALSE, val |-> v]

RetNone == [exc |-> "", none |-> TRUE, val |-> 0]

Raise(e) == [exc |-> e, none |-> FALSE, val |-> 0]

Raised(r) == r.exc # ""

\* ------------------------------------------------------------------
\* Basic number-theoretic tools
\* ------------------------------------------------------------------
RECURSIVE BitLenNat(_)
BitLenNat(x) == IF x = 0 THEN 0 ELSE 1 + BitLenNat(x \div 2)

\* int.bit_length(): bits of the absolute value
bit_length(x) == IF x < 0 THEN BitLenNat(-x) ELSE BitLenNat(x)

\* n & -n for n > 0: the lowest set bit of n
RECURSIVE LowBit(_)
LowBit(x) == IF x % 2 = 1 THEN 1 ELSE 2 * LowBit(x \div 2)

nu2(x) ==
    IF x <= 0 THEN Raise("ValueError")
    ELSE Ret(bit_length(LowBit(x)) - 1)

odd_part(x) ==
    LET k == nu2(x) IN
    IF Raised(k) THEN k ELSE Ret(x \div (2 ^ k.val))

in_residue_set_mod20(x, residues) == (x % 20) \in residues

\* ------------------------------------------------------------------
\* Primitive Collatz map
\* ------------------------------------------------------------------
T(x) == IF x % 2 = 0 THEN x \div 2 ELSE 3 * x + 1

\* ------------------------------------------------------------------
\* Exit maps / macro maps
\* ------------------------------------------------------------------
\* slip: the factors of 2 of k are not stripped
E0_exit_unstripped(x) ==
    IF x % 10 # 0 THEN Ret(x \div 2)
    ELSE Ret(5 * (x \div 10))

E0_exit(x) ==
    IF x % 10 # 0 THEN Ret(x \div 2)
    ELSE LET o == odd_part(x \div 10) IN
         IF Raised(o) THEN o ELSE Ret(5 * o.val)

\* slip: exponent ν2(m) instead of ν2(m)+1
E8_exit_lowpower(x) ==
    IF (x - 18) % 20 # 0 THEN Ret(x \div 2)
    ELSE LET m == (x + 2) \div 20
             a == nu2(m)
             r == odd_part(m)
         IN IF Raised(a) THEN a
            ELSE IF Raised(r) THEN r
            ELSE Ret((10 * (3 ^ a.val) * r.val - 2) \div 2)

E8_exit(x) ==
    IF (x - 18) % 20 # 0 THEN Ret(x \div 2)
    ELSE LET m == (x + 2) \div 20
             a == nu2(m)
             r == odd_part(m)
         IN IF Raised(a) THEN a
            ELSE IF Raised(r) THEN r
            ELSE Ret((10 * (3 ^ (a.val + 1)) * r.val - 2) \div 2)

F6_macro(x) ==
    LET o == odd_part(3 * x + 2) IN
    IF Raised(o) THEN o ELSE Ret(3 * o.val + 1)

C6 == {0, 3, 5, 6}

\* slip: the cap taken from the valuation of 3n+2, not from its bit length
E6_B_valuation(x) == nu2(3 * x + 2).val

\* B = bitlen(3n+2)
E6_B(x) == bit_length(3 * x + 2)

\* the for loop of E6_exit: the value of fk when the loop ends
RECURSIVE E6_loop(_, _)
E6_loop(fk, left) ==
    IF left = 0 THEN Ret(fk)
    ELSE IF ~ in_residue_set_mod20(fk, C6) THEN Ret(fk)
    ELSE LET f == F6_macro(fk) IN
         IF Raised(f) THEN f ELSE E6_loop(f.val, left - 1)

E6_exit(x) ==
    IF ~ in_residue_set_mod20(x, C6) THEN Ret(x \div 2)
    ELSE LET f == E6_loop(x, E6_B(x)) IN
         IF Raised(f) THEN f ELSE Ret(f.val \div 2)

F4_macro(x) ==
    LET a == odd_part(x) IN
    IF Raised(a) THEN a
    ELSE LET b == odd_part(3 * a.val + 1) IN
         IF Raised(b) THEN b
         ELSE LET c == odd_part(3 * b.val + 1) IN
              IF Raised(c) THEN c ELSE Ret(3 * c.val + 1)

\* slip: the terminal value 1 is not excluded from the cycle
in_C4_by_last_digit_with1(x) == (x % 10) \in {1, 2, 4, 7}

in_C4_by_last_digit(x) ==
    IF x = 1 THEN FALSE ELSE (x % 10) \in {1, 2, 4, 7}

\* slip: range(1, t) in place of range(1, t + 1)
RECURSIVE micro_scan_short(_, _, _)
micro_scan_short(a, r, t) ==
    IF r >= t THEN RetNone
    ELSE LET cand == a \div (2 ^ r) IN
         IF ~ in_C4_by_last_digit(cand) THEN Ret(cand)
         ELSE micro_scan_short(a, r + 1, t)

\* the for loop of _micro_step_checker_C4, from r up to t
RECURSIVE micro_scan(_, _, _)
micro_scan(a, r, t) ==
    IF r > t THEN RetNone
    ELSE LET cand == a \div (2 ^ r) IN
         IF ~ in_C4_by_last_digit(cand) THEN Ret(cand)
         ELSE micro_scan(a, r + 1, t)

micro_step_checker_C4(x) ==
    LET o == odd_part(x) IN
    IF Raised(o) THEN o
    ELSE LET a == 3 * o.val + 1
             t == nu2(a)
         IN IF Raised(t) THEN t ELSE micro_scan(a, 1, t.val)

\* the while loop of _check_macro_internal_for_leaving_C4 and what follows it
RECURSIVE check_from(_)
check_from(a) ==
    IF a % 2 = 0
    THEN IF ~ in_C4_by_last_digit(a) THEN Ret(a) ELSE check_from(a \div 2)
    ELSE LET res == micro_step_checker_C4(a) IN
         IF Raised(res) THEN res
         ELSE IF ~ res.none THEN res
         ELSE micro_step_checker_C4(3 * a + 1)

check_macro_internal_for_leaving_C4(fk) == check_from(fk \div 2)

\* slip: the cap taken from the valuation of t, not from its bit length
E4_UB_valuation(x) == nu2(3 * x + 2).val

\* UB = t.bit_length() with t = 3*n0 + 2
E4_UB(x) == bit_length(3 * x + 2)

\* the for loop of E4_exit with `left` iterations to go
RECURSIVE E4_loop(_, _)
E4_loop(fk, left) ==
    IF left = 0
    THEN Raise("RuntimeError")
    ELSE LET found == check_macro_internal_for_leaving_C4(fk) IN
         IF Raised(found) THEN found
         ELSE IF ~ found.none THEN found
         ELSE LET f == F4_macro(fk) IN
              IF Raised(f) THEN f ELSE E4_loop(f.val, left - 1)

E4_exit(x) ==
    IF x <= 0 THEN Raise("ValueError")
    ELSE E4_loop(x, E4_UB(x) + 1)

\* ------------------------------------------------------------------
\* Top-level reduced solver: one iteration of its while loop
\* ------------------------------------------------------------------
prefix_is_even(x) == ((x \div 10) % 2) = 0

\* slip: the branch for last digit 8 is missing
solver_body_no8(x) ==
    LET d == x % 10 IN
    IF d = 0 THEN E0_exit(x)
    ELSE IF d \in {1, 3, 5, 7, 9} THEN Ret(3 * x + 1)
    ELSE IF d = 2
         THEN IF prefix_is_even(x) THEN Ret((x \div 2) * 3 + 1)
              ELSE Ret(x \div 2)
    ELSE IF d = 4 THEN E4_exit(x)
    ELSE IF d = 6 THEN E6_exit(x)
    ELSE Raise("RuntimeError")

\* slip: the two branches of last digit 2 are exchanged
solver_body_swapped2(x) ==
    LET d == x % 10 IN
    IF d = 0 THEN E0_exit(x)
    ELSE IF d \in {1, 3, 5, 7, 9} THEN Ret(3 * x + 1)
    ELSE IF d = 2
         THEN IF prefix_is_even(x) THEN Ret(x \div 2)
              ELSE Ret((x \div 2) * 3 + 1)
    ELSE IF d = 4 THEN E4_exit(x)
    ELSE IF d = 6 THEN E6_exit(x)
    ELSE IF d = 8 THEN E8_exit(x)
    ELSE Raise("RuntimeError")

solver_body(x) ==
    LET d == x % 10 IN
    IF d = 0 THEN E0_exit(x)
    ELSE IF d \in {1, 3, 5, 7, 9} THEN Ret(3 * x + 1)
    ELSE IF d = 2
         THEN IF prefix_is_even(x) THEN Ret((x \div 2) * 3 + 1)
              ELSE Ret(x \div 2)
    ELSE IF d = 4 THEN E4_exit(x)
    ELSE IF d = 6 THEN E6_exit(x)
    ELSE IF d = 8 THEN E8_exit(x)
    ELSE Raise("RuntimeError")

\* ------------------------------------------------------------------
\* Hub: n = E8_exit(E6_exit(a))
\* ------------------------------------------------------------------
hub_route(a) ==
    LET b == E6_exit(a) IN
    IF Raised(b) THEN b ELSE E8_exit(b.val)

\* ------------------------------------------------------------------
\* The operations a caller can invoke
\* ------------------------------------------------------------------
Solver == "reduced_collatz_solver"

Hub == "solve_C4_hub"

FnOps == {"nu2", "odd_part", "E0_exit", "E8_exit", "F6_macro", "E6_exit",
          "F4_macro", "E4_exit"}

Apply(f, x) ==
    CASE f = "nu2" -> nu2(x)
      [] f = "odd_part" -> odd_part(x)
      [] f = "E0_exit" -> E0_exit(x)
      [] f = "E8_exit" -> E8_exit(x)
      [] f = "F6_macro" -> F6_macro(x)
      [] f = "E6_exit" -> E6_exit(x)
      [] f = "F4_macro" -> F4_macro(x)
      [] f = "E4_exit" -> E4_exit(x)

ArgRange(f) ==
    IF f = Solver THEN (-MaxNeg) .. (SolverRangeEnd - 1)
    ELSE IF f = Hub THEN (-MaxNeg) .. MaxHubArg
    ELSE (-MaxNeg) .. MaxFnArg

Init ==
    /\ op \in FnOps \cup {Solver, Hub}
    /\ n0 \in ArgRange(op)
    /\ n = n0
    /\ pc = IF op = Hub THEN "loop" ELSE "entry"
    /\ ret = 0
    /\ iters = 0

\* a direct call of one exit map, macro map or primitive
Call ==
    /\ op \in FnOps
    /\ pc = "entry"
    /\ LET r == Apply(op, n0) IN
       /\ pc' = IF Raised(r) THEN r.exc ELSE "returned"
       /\ ret' = r.val
    /\ UNCHANGED <<op, n0, n, iters>>

\* reduced_collatz_solver: the positivity check
solver_enter ==
    /\ op = Solver
    /\ pc = "entry"
    /\ pc' = IF n <= 0 THEN "ValueError" ELSE "loop"
    /\ UNCHANGED <<op, n0, n, ret, iters>>

\* reduced_collatz_solver: one iteration of `while n >= 10`
solver_iter ==
    /\ op = Solver
    /\ pc = "loop"
    /\ n >= 10
    /\ iters < MaxIters
    /\ iters' = iters + 1
    /\ LET r == solver_body(n) IN
       IF Raised(r)
       THEN /\ pc' = r.exc
            /\ n' = n
       ELSE /\ pc' = "loop"
            /\ n' = r.val
    /\ UNCHANGED <<op, n0, ret>>

\* reduced_collatz_solver: `return 1` once n < 10
solver_return ==
    /\ op = Solver
    /\ pc = "loop"
    /\ n < 10
    /\ pc' = "returned"
    /\ ret' = 1
    /\ UNCHANGED <<op, n0, n, iters>>

\* solve_C4_hub: one iteration of `while True`
hub_iter ==
    /\ op = Hub
    /\ pc = "loop"
    /\ iters < MaxIters
    /\ iters' = iters + 1
    /\ LET a == E4_exit(n) IN
       IF Raised(a)
       THEN /\ pc' = a.exc
            /\ UNCHANGED <<n, ret>>
       ELSE IF a.val = 1
       THEN /\ pc' = "returned"
            /\ ret' = 1
            /\ n' = n
       ELSE LET r == hub_route(a.val) IN
            IF Raised(r)
            THEN /\ pc' = r.exc
                 /\ UNCHANGED <<n, ret>>
            ELSE /\ pc' = "loop"
                 /\ n' = r.val
                 /\ ret' = ret
    /\ UNCHANGED <<op, n0>>

Next == Call \/ solver_enter \/ solver_iter \/ solver_return \/ hub_iter

Spec == Init /\ [][Next]_vars


\* fk after `k` advances fk := F4(fk) from x
RECURSIVE E4_loop_fk(_, _)
E4_loop_fk(x, k) == IF k = 0 THEN x ELSE E4_loop_fk(F4_macro(x).val, k - 1)

\* ------------------------------------------------------------------
\* Reference: the primitive map iterated
\* ------------------------------------------------------------------
RECURSIVE TIter(_, _)
TIter(x, k) == IF k = 0 THEN x ELSE TIter(T(x), k - 1)

\* y = T^k(x) for some k in 1..fuel (the search stops at the fixed cycle)
RECURSIVE TReaches(_, _, _)
TReaches(x, y, fuel) ==
    IF fuel = 0 THEN FALSE
    ELSE LET tx == T(x) IN
         IF tx = y THEN TRUE
         ELSE IF tx = 1 THEN FALSE
         ELSE TReaches(tx, y, fuel - 1)

\* the first of x, T(x), T(T(x)), ... that fails the digit-cycle test
RECURSIVE FirstLeaving(_, _)
FirstLeaving(x, fuel) ==
    IF ~ in_C4_by_last_digit(x) THEN x
    ELSE IF fuel = 0 THEN -1
    ELSE FirstLeaving(T(x), fuel - 1)

\* the iteration (counted from 1) of E4's outer loop whose leave-detector
\* yields a candidate, 0 when none of the first `cap` iterations does
RECURSIVE FoundAt(_, _, _)
FoundAt(fk, i, cap) ==
    IF i > cap THEN 0
    ELSE IF ~ check_macro_internal_for_leaving_C4(fk).none THEN i
    ELSE FoundAt(F4_macro(fk).val, i + 1, cap)

\* number of F6 applications until the value leaves C6, cap + 1 when more
\* than `cap` are needed
RECURSIVE F6Applications(_, _, _)
F6Applications(fk, k, cap) ==
    IF ~ in_residue_set_mod20(fk, C6) THEN k
    ELSE IF k = cap THEN cap + 1
    ELSE F6Applications(F6_macro(fk).val, k + 1, cap)

HomeDigit(f) ==
    CASE f = "E0_exit" -> 0
      [] f = "E4_exit" -> 4
      [] f = "E6_exit" -> 6
      [] f = "E8_exit" -> 8

Done == pc # "entry"

\* ------------------------------------------------------------------
\* C1: for every n in 1..10000 the solver raises neither ValueError nor
\* RuntimeError, its loop ends before MaxIters iterations, and the value it
\* returns is 1.
\* ------------------------------------------------------------------
C1_SolverReturnsOne ==
    (op = Solver /\ n0 \in 1 .. (SolverRangeEnd - 1))
        => /\ pc \in {"entry", "loop", "returned"}
           /\ (pc = "loop" /\ n >= 10) => iters < MaxIters
           /\ pc = "returned" => (ret = 1 /\ n < 10)

C1_Witness ==
    /\ op = Solver
    /\ n0 = SolverRangeEnd - 1
    /\ n < 10
    /\ pc = "returned"
    /\ ret = 1

\* ------------------------------------------------------------------
\* C2: for every positive n (n = 1 and last digits other than 4 included)
\* the hub never raises, its loop E4 -> E6 -> E8 ends before MaxIters
\* iterations, and the value it returns is 1.
\* ------------------------------------------------------------------
C2_HubReturnsOne ==
    (op = Hub /\ n0 >= 1)
        => /\ pc \in {"loop", "returned"}
           /\ pc = "loop" => iters < MaxIters
           /\ pc = "returned" => ret = 1

\* ------------------------------------------------------------------
\* C3: for every n >= 14 with last digit 4 of the sampled range the hub
\* never raises, its loop ends before MaxIters iterations, and the value it
\* returns is 1.
\* ------------------------------------------------------------------
C3_HubSmokeRange ==
    (op = Hub /\ n0 >= 14 /\ n0 % 10 = 4)
        => /\ pc \in {"loop", "returned"}
           /\ pc = "loop" => iters < MaxIters
           /\ pc = "returned" => ret = 1

C3_Witness ==
    /\ op = Hub
    /\ n0 >= 14
    /\ n0 % 10 = 4
    /\ n # n0
    /\ pc = "returned"
    /\ ret = 1

\* ------------------------------------------------------------------
\* C4: every value one iteration of the solver's loop assigns is T applied
\* k >= 1 times to the value held before, and every value the loop holds
\* lies on the primitive trajectory of the input.
\* ------------------------------------------------------------------
C4_RouterFaithful ==
    /\ [][(op = Solver /\ pc = "loop" /\ n >= 10)
            => (pc' = "loop" /\ TReaches(n, n', MaxSteps))]_vars
    /\ []((op = Solver /\ n0 >= 1)
            => (n = n0 \/ TReaches(n0, n, MaxSteps)))

C4_Witness ==
    /\ op = Solver
    /\ pc = "loop"
    /\ n0 % 10 = 4
    /\ n0 >= 10
    /\ n # n0
    /\ n % 10 = 6
    /\ TReaches(n0, n, MaxSteps)

\* ------------------------------------------------------------------
\* C5: an exit map applied to a positive value of its home component
\* (last digit 0, 4, 6, 8 for E0, E4, E6, E8) returns a value whose last
\* digit is not the home digit.
\* ------------------------------------------------------------------
C5_EventualExit ==
    (/\ op \in {"E0_exit", "E4_exit", "E6_exit", "E8_exit"}
     /\ n0 >= 1
     /\ n0 % 10 = HomeDigit(op)
     /\ Done)
        => (pc = "returned" /\ ret % 10 # HomeDigit(op))

C5_Witness ==
    /\ op = "E6_exit"
    /\ n0 >= 1
    /\ n0 % 20 = 6
    /\ pc = "returned"
    /\ ret % 10 = 8

\* ------------------------------------------------------------------
\* C6: for every positive n0 E4 finds its exit candidate within the
\* iterations its outer loop allows, which are at most
\* bitLength(t) + valuation2(t) + 1 with t = 3*n0 + 2, and returns it;
\* RuntimeError is never raised.
\* ------------------------------------------------------------------
C6_E4CapNeverExhausted ==
    (op = "E4_exit" /\ n0 >= 1 /\ Done)
        => LET t == 3 * n0 + 2
               k == FoundAt(n0, 1, E4_UB(n0) + 1)
           IN /\ pc = "returned"
              /\ k >= 1
              /\ k <= bit_length(t) + nu2(t).val + 1
              /\ ret = check_macro_internal_for_leaving_C4(
                           IF k <= 1 THEN n0
                           ELSE E4_loop_fk(n0, k - 1)).val

C6_Witness ==
    /\ op = "E4_exit"
    /\ n0 >= 1
    /\ pc = "returned"
    /\ FoundAt(n0, 1, E4_UB(n0) + 1) >= 4

\* ------------------------------------------------------------------
\* C7: from a positive n with n mod 20 in C6, at most B = bitLength(3n+2)
\* applications of F6 leave C6, so the value E6 halves and returns is not
\* congruent to an element of C6 modulo 20.
\* ------------------------------------------------------------------
C7_E6CapNeverReached ==
    (op = "E6_exit" /\ n0 >= 1 /\ in_residue_set_mod20(n0, C6) /\ Done)
        => LET f == E6_loop(n0, E6_B(n0)) IN
           /\ pc = "returned"
           /\ F6Applications(n0, 0, E6_B(n0)) <= E6_B(n0)
           /\ ~ Raised(f)
           /\ ~ in_residue_set_mod20(f.val, C6)
           /\ ret = f.val \div 2

C7_Witness ==
    /\ op = "E6_exit"
    /\ n0 >= 1
    /\ in_residue_set_mod20(n0, C6)
    /\ pc = "returned"
    /\ F6Applications(n0, 0, E6_B(n0)) >= 5

\* ------------------------------------------------------------------
\* C8: for positive n with n mod 20 = 18 and m = (n+2)/20, E8(n) is
\* (10 * 3^(valuation2(m)+1) * oddPart(m) - 2) / 2 and equals T applied
\* 2*valuation2(m) + 3 times to n; for every other positive even n,
\* E8(n) = n/2 = T(n).
\* ------------------------------------------------------------------
C8_E8ClosedForm ==
    (op = "E8_exit" /\ n0 >= 1 /\ n0 % 2 = 0 /\ Done)
        => /\ pc = "returned"
           /\ IF n0 % 20 = 18
              THEN LET m == (n0 + 2) \div 20
                       a == nu2(m).val
                       r == odd_part(m).val
                   IN /\ ret = (10 * (3 ^ (a + 1)) * r - 2) \div 2
                      /\ ret = TIter(n0, 2 * a + 3)
              ELSE /\ ret = n0 \div 2
                   /\ ret = T(n0)

C8_Witness ==
    /\ op = "E8_exit"
    /\ n0 % 20 = 18
    /\ nu2((n0 + 2) \div 20).val >= 2
    /\ pc = "returned"
    /\ ret = TIter(n0, 2 * nu2((n0 + 2) \div 20).val + 3)

\* ------------------------------------------------------------------
\* C9: every exposed operation called with n <= 0 ends in ValueError and
\* never returns a value.
\* ------------------------------------------------------------------
C9_NonPositiveFails ==
    (n0 <= 0) => (pc \in {"entry", "loop", "ValueError"} /\ pc # "returned")

\* ------------------------------------------------------------------
\* C10: for positive n0 with last digit 4, E4(n0) is the first element
\* after n0 on the primitive trajectory of n0 that fails the digit-cycle
\* test.
\* ------------------------------------------------------------------
C10_E4FirstLeaving ==
    (op = "E4_exit" /\ n0 >= 1 /\ n0 % 10 = 4 /\ Done)
        => /\ pc = "returned"
           /\ ret = FirstLeaving(T(n0), MaxSteps)
           /\ TReaches(n0, ret, MaxSteps)

C10_Witness ==
    /\ op = "E4_exit"
    /\ n0 % 10 = 4
    /\ pc = "returned"
    /\ FoundAt(n0, 1, E4_UB(n0) + 1) >= 3
    /\ ret = FirstLeaving(T(n0), MaxSteps)

====
